---- MODULE Spec2Model ----
(***************************************************************************)
(* Model of the wtfi diagnostic engine (internal/diagnostic/diagnostic.go). *)
(*                                                                         *)
(* A Go string is modelled as a Text: a sequence of string fragments whose *)
(* concatenation is the string.  "" is <<>>, s + t is s \o t, and a        *)
(* substring test looks for fragments.  Byte-level strings (the captive    *)
(* portal body, a ping average capture) use one fragment per byte.         *)
(* A time.Duration is an integer number of nanoseconds.                    *)
(* Result.Emoji is presentational and left out of the Result record.       *)
(***************************************************************************)
EXTENDS Integers, Sequences, FiniteSets, TLC

VARIABLES
    pc,          \* "idle": no check called yet; "trace": FastTraceroute waits in wg.Wait(); "done": returned
    check,       \* the entry point that was called
    verbose,     \* the verbose flag passed to it (FALSE for the checks that take none)
    env,         \* what the environment gave the check: tool outputs, network replies
    res,         \* the Result returned
    pingRet,     \* the (time.Duration, error) pair last returned by ping / parsePing
    hops,        \* FastTraceroute's slot array, make([]string, 11)
    running,     \* TTLs whose goroutine has not yet called wg.Done()
    outOfOrder   \* history: some goroutine finished before one with a lower TTL

vars == <<pc, check, verbose, env, res, pingRet, hops, running, outOfOrder>>

(***************************************************************************)
(* Program constants                                                       *)
(***************************************************************************)
StatusOk == 0
StatusWarning == 1
StatusError == 2

Microsecond == 1000
Millisecond == 1000000

NumTTL == 10
ReadCap == 1024
RssiFloor == -80
WanCeilingMs == 150
DnsCeilingMs == 300

(***************************************************************************)
(* Text helpers                                                            *)
(***************************************************************************)
Empty == <<>>

\* strings.Contains(s, frag) for a literal that is one fragment of the text
Contains(s, frag) == \E i \in 1..Len(s) : s[i] = frag

\* fmt.Sprintf("%2d", n): right-aligned in two columns
Pad2(n) == IF n < 10 THEN <<" ", ToString(n)>> ELSE <<ToString(n)>>

Result(name, lat, status, msg, fix, details) ==
    [Name |-> name, Latency |-> lat, Status |-> status,
     Message |-> msg, Fix |-> fix, Details |-> details]

NoResult == Result(Empty, 0, StatusOk, Empty, Empty, <<>>)
NoPing == [lat |-> 0, err |-> FALSE]

\* The fragments that consist of white space only.
Whitespace == {" ", "      ", "        ", "          ", "\t", "\n"}

\* strings.TrimSpace
RECURSIVE TrimLeft(_)
TrimLeft(s) == IF s # <<>> /\ Head(s) \in Whitespace THEN TrimLeft(Tail(s)) ELSE s

RECURSIVE TrimRight(_)
TrimRight(s) ==
    IF s # <<>> /\ s[Len(s)] \in Whitespace THEN TrimRight(SubSeq(s, 1, Len(s) - 1)) ELSE s

TrimSpace(s) == TrimRight(TrimLeft(s))

\* strings.HasSuffix(s, frag) / strings.TrimSuffix(s, frag)
HasSuffix(s, frag) == s # <<>> /\ s[Len(s)] = frag
TrimSuffix(s, frag) == IF HasSuffix(s, frag) THEN SubSeq(s, 1, Len(s) - 1) ELSE s

RECURSIVE Pow10(_)
Pow10(n) == IF n = 0 THEN 1 ELSE 10 * Pow10(n - 1)

\* The environment record: every tool output and network reply a check reads.
NoCmd == [err |-> FALSE, out |-> <<>>]
NoDns == [order |-> <<>>, reply |-> <<>>]
NoRelay == [err |-> FALSE, ips |-> <<>>, dur |-> 0]
NoHttp == [err |-> FALSE, status |-> "", header |-> <<>>, body |-> <<>>, dur |-> 0]
NoEnv == [route |-> NoCmd, profiler |-> NoCmd, ping |-> NoCmd, arp |-> NoCmd,
          ifconfig |-> NoCmd, dns |-> NoDns, relay |-> NoRelay, http |-> NoHttp]

\* A check returns: the state after it.
Return(c, v, e, r, pr) ==
    /\ pc' = "done"
    /\ check' = c
    /\ verbose' = v
    /\ env' = e
    /\ res' = r
    /\ pingRet' = pr

(***************************************************************************)
(* route -n get default: parseInterface, parseGateway                      *)
(***************************************************************************)
Words == {"en0"}
DottedQuads == {"192.168.0.1"}

RouteOutputs ==
    { [err |-> TRUE,  out |-> <<"route: writing to routing socket: not in table\n">>],
      [err |-> FALSE, out |-> <<"   route to: default\n", "    ", "gateway: ", "192.168.0.1", "\n",
                                "  ", "interface: ", "en0", "\n">>],
      [err |-> FALSE, out |-> <<"   route to: default\n", "    ", "gateway: ", "fe80::1%en0", "\n",
                                "  ", "interface: ", "en0", "\n">>],
      [err |-> FALSE, out |-> <<"   route to: default\n">>] }

\* The first (leftmost) position where tag is followed by a fragment of class; 0 if none.
FirstTagged(out, tag, class) ==
    LET hits == { i \in 1..(Len(out) - 1) : out[i] = tag /\ out[i + 1] \in class }
    IN IF hits = {} THEN 0 ELSE CHOOSE j \in hits : \A k \in hits : j <= k

\* regexp `interface: (\w+)`
parseInterface(out) ==
    LET i == FirstTagged(out, "interface: ", Words)
    IN IF i > 0 THEN [val |-> out[i + 1], err |-> FALSE] ELSE [val |-> "", err |-> TRUE]

\* regexp `gateway: (\d+\.\d+\.\d+\.\d+)`
parseGateway(out) ==
    LET i == FirstTagged(out, "gateway: ", DottedQuads)
    IN IF i > 0 THEN [val |-> out[i + 1], err |-> FALSE] ELSE [val |-> "", err |-> TRUE]

getPrimaryInterface(r) == IF r.err THEN [val |-> "", err |-> TRUE] ELSE parseInterface(r.out)

getGatewayIP(r) == IF r.err THEN [val |-> "", err |-> TRUE] ELSE parseGateway(r.out)

(***************************************************************************)
(* ping, parsePing                                                         *)
(***************************************************************************)
Digits == {"0", "1", "2", "3", "4", "5", "6", "7", "8", "9"}
DigitDot == Digits \cup {"."}
SummaryTag == "min/avg/max/stddev = "

\* The first index after the longest run of [\d\.] bytes that starts at i.
RECURSIVE RunEnd(_, _)
RunEnd(s, i) == IF i <= Len(s) /\ s[i] \in DigitDot THEN RunEnd(s, i + 1) ELSE i

\* Where regexp `min/avg/max/stddev = [\d\.]+/([\d\.]+)` matches: tag positions
\* followed by a run, a slash and a second (captured) run.
SummaryHits(out) ==
    { i \in 1..Len(out) :
        /\ out[i] = SummaryTag
        /\ LET e == RunEnd(out, i + 1)
           IN /\ e > i + 1
              /\ e <= Len(out)
              /\ out[e] = "/"
              /\ RunEnd(out, e + 1) > e + 1 }

\* Capture group 1 of the leftmost match.
AvgCapture(out) ==
    LET i == CHOOSE j \in SummaryHits(out) : \A k \in SummaryHits(out) : j <= k
        e == RunEnd(out, i + 1)
    IN SubSeq(out, e + 1, RunEnd(out, e + 1) - 1)

DigitVal(ch) == CHOOSE d \in 0..9 : ToString(d) = ch

RECURSIVE Mantissa(_)
Mantissa(ds) == IF ds = <<>> THEN 0 ELSE 10 * Mantissa(SubSeq(ds, 1, Len(ds) - 1)) + DigitVal(ds[Len(ds)])

IsDigit(ch) == ch \in Digits
IsDot(ch) == ch = "."

\* The position of the first "." of c, Len(c) + 1 when it has none.
RECURSIVE DotPos(_, _)
DotPos(c, i) == IF i > Len(c) \/ c[i] = "." THEN i ELSE DotPos(c, i + 1)

\* strconv.ParseFloat(c, 64) on a capture of [\d\.]+ : the decimal
\* mant / 10^scale, or (0, err) when c is not one number.
ParseFloat(c) ==
    LET ds == SelectSeq(c, IsDigit)
        dots == Len(SelectSeq(c, IsDot))
    IN IF dots > 1 \/ ds = <<>>
       THEN [mant |-> 0, scale |-> 0, err |-> TRUE]
       ELSE [mant |-> Mantissa(ds),
             scale |-> IF dots = 0 THEN 0 ELSE Len(c) - DotPos(c, 1),
             err |-> FALSE]

\* time.Duration(avg * float64(time.Millisecond)): the product truncated to
\* whole nanoseconds.  On the captures drawn here the float64 product is the
\* exact decimal product.
FloatToDuration(f) ==
    IF f.scale <= 6
    THEN f.mant * (Millisecond \div Pow10(f.scale))
    ELSE f.mant \div Pow10(f.scale - 6)

parsePing(out) ==
    IF SummaryHits(out) # {}
    THEN [lat |-> FloatToDuration(ParseFloat(AvgCapture(out))), err |-> FALSE]
    ELSE [lat |-> 0, err |-> TRUE]

\* What `ping -c 1 -t 1 <ip>` can give.  The average capture is any string of
\* up to MaxAvgLen bytes of AvgChars, or one of NamedCaptures.
MaxAvgLen == 3
AvgChars == {"0", "1", "."}

RECURSIVE Strings(_, _)
Strings(alphabet, n) ==
    IF n = 0 THEN {<<>>}
    ELSE LET shorter == Strings(alphabet, n - 1)
         IN shorter \cup { Append(t, c) : t \in shorter, c \in alphabet }

NamedCaptures ==
    { <<"1", "2", ".", "3", "4", "5">>,
      <<"1", "5", "0", ".", "0", "0", "0">>,
      <<"1", "5", "0", ".", "0", "0", "1">>,
      <<"1", "4", "9", ".", "9", "9", "9">>,
      <<"1", ".", "2", ".", "3">> }

AvgCaptures == (Strings(AvgChars, MaxAvgLen) \ {<<>>}) \cup NamedCaptures

PingReply(avg) ==
    <<"64 bytes from 1.1.1.1: icmp_seq=0 ttl=58 time=12.345 ms\n",
      "1 packets transmitted, 1 packets received, 0.0% packet loss\n",
      "round-trip ", SummaryTag, "0", ".", "5", "/">> \o avg \o <<"/", "1", "2", "/", "0", " ms\n">>

PingLoss == <<"1 packets transmitted, 0 packets received, 100.0% packet loss\n">>

PingOutputs ==
    { [err |-> TRUE, out |-> PingLoss], [err |-> FALSE, out |-> PingLoss] }
    \cup { [err |-> FALSE, out |-> PingReply(a)] : a \in AvgCaptures }

\* As ping, but a failed command reports the 2 s deadline it waited for.
pingReportsDeadline(p) == IF p.err THEN [lat |-> 2000 * Millisecond, err |-> TRUE] ELSE parsePing(p.out)

\* ping(ip) on the command's exit status and stdout
ping(p) == IF p.err THEN [lat |-> 0, err |-> TRUE] ELSE parsePing(p.out)

(***************************************************************************)
(* CheckL2WiFi, parseWiFiInfo                                              *)
(***************************************************************************)
CurrentMarker == "Current Network Information"
OtherMarker == "Other Local Wi-Fi Networks"
SignalTag == "Signal / Noise"

\* The lines system_profiler SPAirPortDataType output is made of.
WiFiLines ==
    { <<"Software Versions">>,
      <<"      ", CurrentMarker, ":">>,
      <<"        ", "MyHomeWiFi", ":">>,
      <<"          ", "PHY Mode", ":", " 802.11ax">>,
      <<"          ", SignalTag, ":", " ", "-50", " dBm / ", "-92", " dBm">>,
      <<"          ", SignalTag, ":", " ", "-85", " dBm / ", "-92", " dBm">>,
      <<"          ", SignalTag, ":", " ", "n/a">>,
      <<"      ", OtherMarker, ":">>,
      <<"        ", "NeighborWiFi", ":">> }

\* The output has up to MaxLines lines (strings.Split(output, "\n") is the
\* sequence of lines itself).
MaxLines == 4
WiFiOutputs == Strings(WiFiLines, MaxLines)

ProfilerOutputs ==
    { [err |-> TRUE, out |-> <<>>] } \cup { [err |-> FALSE, out |-> ls] : ls \in WiFiOutputs }

\* strconv.Atoi on a match of -?\d+
IntRange == -100..100
IsIntText(s) == \E n \in IntRange : ToString(n) = s
Atoi(s) == CHOOSE n \in IntRange : ToString(n) = s

\* regexp `(-?\d+) dBm / (-?\d+) dBm` FindStringSubmatch: <<>> when there is
\* no match, else <<capture 1, capture 2>>.
FindSignal(line) ==
    LET hits == { i \in 1..(Len(line) - 3) :
                    /\ IsIntText(line[i])
                    /\ line[i + 1] = " dBm / "
                    /\ IsIntText(line[i + 2])
                    /\ line[i + 3] = " dBm" }
    IN IF hits = {} THEN <<>>
       ELSE LET i == CHOOSE j \in hits : \A k \in hits : j <= k
            IN <<line[i], line[i + 2]>>

\* The loop of parseWiFiInfo from line i on; st holds isCurrent, ssid, the
\* Name, rssi and details.
RECURSIVE WiFiScan(_, _, _, _)
WiFiScan(lines, i, st, v) ==
    IF i > Len(lines) THEN st
    ELSE LET line == lines[i]
             trimmed == TrimSpace(line)
         IN IF Contains(line, CurrentMarker)
            THEN WiFiScan(lines, i + 1, [st EXCEPT !.isCurrent = TRUE], v)
            ELSE IF ~st.isCurrent
            THEN WiFiScan(lines, i + 1, st, v)
            ELSE LET s1 == IF HasSuffix(trimmed, ":") /\ st.ssid = Empty
                           THEN [st EXCEPT !.ssid = TrimSuffix(trimmed, ":"),
                                           !.name = <<"Wi-Fi (">> \o TrimSuffix(trimmed, ":") \o <<")">>]
                           ELSE st
                     m == FindSignal(line)
                     s2 == IF Contains(line, SignalTag) /\ Len(m) > 1
                           THEN [s1 EXCEPT !.rssi = Atoi(m[1])]
                           ELSE s1
                     s3 == IF v /\ Contains(line, ":")
                           THEN [s2 EXCEPT !.details = Append(@, trimmed)]
                           ELSE s2
                 IN IF Contains(line, OtherMarker) THEN s3 ELSE WiFiScan(lines, i + 1, s3, v)

WiFiStart == [isCurrent |-> FALSE, ssid |-> Empty, name |-> <<"Wi-Fi">>, rssi |-> 0, details |-> <<>>]

parseWiFiInfo(output, iface, v) ==
    LET st == WiFiScan(output, 1, WiFiStart, v)
        weak == st.rssi < RssiFloor /\ st.rssi # 0
    IN Result(st.name, 0,
              IF weak THEN StatusWarning ELSE StatusOk,
              <<"Interface: ", iface, ", Signal: ", ToString(st.rssi), " dBm">>,
              IF weak THEN <<"Weak signal. Move closer to the Access Point.">> ELSE Empty,
              st.details)

CheckL2WiFi ==
    /\ pc = "idle"
    /\ \E v \in BOOLEAN, r \in RouteOutputs :
         LET iface == getPrimaryInterface(r)
             e1 == [NoEnv EXCEPT !.route = r]
         IN IF iface.err
            THEN Return("CheckL2WiFi", v, e1,
                        Result(<<"Connectivity">>, 0, StatusError, <<"No default route found">>,
                               <<"Check your network hardware.">>, <<>>),
                        NoPing)
            ELSE \E pf \in ProfilerOutputs :
                   LET e2 == [e1 EXCEPT !.profiler = pf]
                   IN IF pf.err
                      THEN Return("CheckL2WiFi", v, e2,
                                  Result(<<"Wi-Fi">>, 0, StatusError,
                                         <<"Failed to retrieve Wi-Fi telemetry">>, Empty, <<>>),
                                  NoPing)
                      ELSE Return("CheckL2WiFi", v, e2, parseWiFiInfo(pf.out, iface.val, v), NoPing)
    /\ UNCHANGED <<hops, running, outOfOrder>>

(***************************************************************************)
(* CheckL3Gateway, CheckL3WAN                                              *)
(***************************************************************************)
ArpOutputs ==
    { [err |-> TRUE, out |-> <<>>],
      [err |-> FALSE, out |-> <<"? (192.168.0.1) at 0:11:22:33:44:55 on en0 ifscope [ethernet]", "\n">>] }

\* ifconfig <iface>: stdout as its lines (strings.Split(out, "\n"))
IfconfigOutputs ==
    { [err |-> TRUE, out |-> <<>>],
      [err |-> FALSE, out |-> << <<"en0: flags=8863<UP,BROADCAST,SMART,RUNNING,SIMPLEX,MULTICAST> mtu 1500">>,
                                 <<"\t", "ether 0:11:22:33:44:66">>,
                                 <<"\t", "inet ", "192.168.0.5 netmask 0xffffff00 broadcast 192.168.0.255">> >>] }

\* for _, l := range lines: the lines that contain "inet ", trimmed
InetLines(lines) ==
    LET HasInet(l) == Contains(l, "inet ")
        RECURSIVE Trimmed(_)
        Trimmed(ls) == IF ls = <<>> THEN <<>> ELSE <<TrimSpace(Head(ls))>> \o Trimmed(Tail(ls))
    IN Trimmed(SelectSeq(lines, HasInet))

\* The verbose details.  The interface is looked up again for the ifconfig
\* call and its error dropped; whatever name results, ifconfig's output is
\* one of IfconfigOutputs.
GatewayDetails(a, f) ==
    << <<"--- ARP Entry ---">>, TrimSpace(a.out), <<"--- Interface Details ---">> >> \o InetLines(f.out)

CheckL3Gateway ==
    /\ pc = "idle"
    /\ \E v \in BOOLEAN, r \in RouteOutputs :
         LET gw == getGatewayIP(r)
             e1 == [NoEnv EXCEPT !.route = r]
         IN IF gw.err
            THEN Return("CheckL3Gateway", v, e1,
                        Result(<<"Gateway">>, 0, StatusError, <<"Gateway IP discovery failed">>, Empty, <<>>),
                        NoPing)
            ELSE \E p \in PingOutputs :
                   LET pr == ping(p)
                       e2 == [e1 EXCEPT !.ping = p]
                       name == <<"Gateway (", gw.val, ")">>
                   IN IF pr.err
                      THEN Return("CheckL3Gateway", v, e2,
                                  Result(name, pr.lat, StatusError, <<"Unreachable">>,
                                         <<"Check local cables or restart your router.">>, <<>>),
                                  pr)
                      ELSE IF ~v
                      THEN Return("CheckL3Gateway", v, e2,
                                  Result(name, pr.lat, StatusOk, Empty, Empty, <<>>), pr)
                      ELSE \E a \in ArpOutputs, f \in IfconfigOutputs :
                             Return("CheckL3Gateway", v, [e2 EXCEPT !.arp = a, !.ifconfig = f],
                                    Result(name, pr.lat, StatusOk, Empty, Empty, GatewayDetails(a, f)),
                                    pr)
    /\ UNCHANGED <<hops, running, outOfOrder>>

WanCeiling == WanCeilingMs * Millisecond

\* As WanClassify, with >= for >.
WanClassifyInclusive(r) ==
    IF r.Latency >= WanCeiling
    THEN [r EXCEPT !.Status = StatusWarning, !.Message = <<"High WAN latency">>]
    ELSE r

\* if lat > 150*time.Millisecond { Warning, "High WAN latency" }
WanClassify(r) ==
    IF r.Latency > WanCeiling
    THEN [r EXCEPT !.Status = StatusWarning, !.Message = <<"High WAN latency">>]
    ELSE r

CheckL3WAN ==
    /\ pc = "idle"
    /\ \E p \in PingOutputs :
         LET pr == ping(p)
             e == [NoEnv EXCEPT !.ping = p]
         IN IF pr.err
            THEN Return("CheckL3WAN", FALSE, e,
                        Result(<<"WAN Reachability">>, 0, StatusError,
                               <<"Internet backbone unreachable">>, Empty, <<>>),
                        pr)
            ELSE Return("CheckL3WAN", FALSE, e,
                        WanClassify(Result(<<"Internet (", "1.1.1.1", ")">>, pr.lat, StatusOk,
                                           Empty, Empty, <<>>)),
                        pr)
    /\ UNCHANGED <<hops, running, outOfOrder>>

(***************************************************************************)
(* CheckDNSBenchmark                                                       *)
(***************************************************************************)
Resolvers == {"System", "Google", "Cloudflare"}

DnsCeiling == DnsCeilingMs * Millisecond

\* time.Since(start) of one lookup; the dialer of a public resolver gives up
\* after 2 s.
SystemDurations == {20 * Millisecond + 400, DnsCeiling, DnsCeiling + 1}
PublicDurations == {15 * Millisecond, 2000 * Millisecond}

DnsReplies ==
    { rp \in [Resolvers -> [err : BOOLEAN, dur : SystemDurations \cup PublicDurations]] :
        /\ rp["System"].dur \in SystemDurations
        /\ rp["Google"].dur \in PublicDurations
        /\ rp["Cloudflare"].dur \in PublicDurations }

\* The orders in which `for name, addr := range resolvers` can visit the map.
MapOrders(keys) ==
    { o \in Strings(keys, Cardinality(keys)) :
        Len(o) = Cardinality(keys) /\ \A k \in keys : \E i \in 1..Len(o) : o[i] = k }

\* d.Round(m) for d >= 0
DurRound(d, m) == ((d + (m \div 2)) \div m) * m

\* Duration.String(), rendered as a count of nanoseconds
DurText(d) == <<ToString(d), "ns">>

\* fmt.Sprintf("%-10s", name): left-aligned in ten columns
PadRight10(name) ==
    IF name = "Cloudflare" THEN <<name>> ELSE <<name, "    ">>

DnsLine(name, rp) ==
    PadRight10(name) \o <<": ">> \o DurText(DurRound(rp.dur, Microsecond))
        \o <<" (", IF rp.err THEN "FAIL" ELSE "OK", ")">>

\* The loop over the resolvers from position i of the visiting order.
RECURSIVE DnsLoop(_, _, _, _)
DnsLoop(order, rp, i, r) ==
    IF i > Len(order) THEN r
    ELSE LET name == order[i]
             r1 == [r EXCEPT !.Details = Append(@, DnsLine(name, rp[name]))]
             r2 == IF name = "System" THEN [r1 EXCEPT !.Latency = rp[name].dur] ELSE r1
         IN DnsLoop(order, rp, i + 1, r2)

DnsClassify(r) ==
    IF r.Latency > DnsCeiling
    THEN [r EXCEPT !.Status = StatusWarning,
                   !.Message = <<"High DNS latency detected">>,
                   !.Fix = <<"Switch to a faster DNS provider like Cloudflare (1.1.1.1).">>]
    ELSE r

CheckDNSBenchmark ==
    /\ pc = "idle"
    /\ \E o \in MapOrders(Resolvers), rp \in DnsReplies :
         Return("CheckDNSBenchmark", FALSE, [NoEnv EXCEPT !.dns = [order |-> o, reply |-> rp]],
                DnsClassify(DnsLoop(o, rp, 1,
                                    Result(<<"DNS Benchmark">>, 0, StatusOk, Empty, Empty, <<>>))),
                NoPing)
    /\ UNCHANGED <<hops, running, outOfOrder>>

(***************************************************************************)
(* CheckPrivateRelay                                                       *)
(***************************************************************************)
RelayReplies ==
    { [err |-> TRUE,  ips |-> <<>>, dur |-> 30 * Millisecond],
      [err |-> FALSE, ips |-> <<>>, dur |-> 12 * Millisecond],
      [err |-> FALSE, ips |-> <<"172.224.0.1">>, dur |-> 12 * Millisecond],
      [err |-> FALSE, ips |-> <<"172.224.0.1", "172.224.0.2">>, dur |-> 12 * Millisecond] }

RECURSIVE ProxyNodes(_)
ProxyNodes(ips) ==
    IF ips = <<>> THEN <<>> ELSE << <<"Proxy Node: ", Head(ips)>> >> \o ProxyNodes(Tail(ips))

CheckPrivateRelay ==
    /\ pc = "idle"
    /\ \E v \in BOOLEAN, rl \in RelayReplies :
         Return("CheckPrivateRelay", v, [NoEnv EXCEPT !.relay = rl],
                IF ~rl.err /\ Len(rl.ips) > 0
                THEN Result(<<"iCloud Private Relay">>, rl.dur, StatusOk,
                            <<"Active (Apple Proxy Node detected)">>, Empty,
                            IF v THEN ProxyNodes(rl.ips) ELSE <<>>)
                ELSE Result(<<"iCloud Private Relay">>, rl.dur, StatusOk,
                            <<"Inactive or Bypass mode">>, Empty, <<>>),
                NoPing)
    /\ UNCHANGED <<hops, running, outOfOrder>>

(***************************************************************************)
(* CheckCaptivePortal                                                      *)
(***************************************************************************)
Marker == <<"S", "u", "c", "c", "e", "s", "s">>

\* n filler bytes
Fill(n) == [i \in 1..n |-> "x"]

\* The bodies the endpoint (or a portal) can answer with: filler, with a
\* marker after `pad` bytes and a second one `gap` bytes further on, the
\* first marker ending anywhere within MaxSlack bytes of the read cap.
MaxSlack == 2
Pads == {0} \cup ((ReadCap - Len(Marker) - MaxSlack)..(ReadCap + MaxSlack))
Gaps == {0, MaxSlack}

Body(pad, first, gap, second) ==
    Fill(pad) \o (IF first THEN Marker ELSE <<>>) \o Fill(gap) \o (IF second THEN Marker ELSE <<>>)

Bodies == { Body(pad, first, gap, second) : pad \in Pads, first \in BOOLEAN,
                                            gap \in Gaps, second \in BOOLEAN }

\* resp.Header in the order `range` visits it; each value list is joined.
Headers ==
    { <<>>,
      << [k |-> "Content-Type", v |-> <<"text/html">>] >>,
      << [k |-> "Content-Type", v |-> <<"text/html">>], [k |-> "Set-Cookie", v |-> <<"a=1", "b=2">>] >>,
      << [k |-> "Set-Cookie", v |-> <<"a=1", "b=2">>], [k |-> "Content-Type", v |-> <<"text/html">>] >> }

HttpReplies ==
    { [err |-> TRUE, status |-> "", header |-> <<>>, body |-> <<>>, dur |-> 0] }
    \cup { [err |-> FALSE, status |-> "200 OK", header |-> h, body |-> b, dur |-> 80 * Millisecond] :
             h \in Headers, b \in Bodies }

\* strings.Join(v, ", ")
RECURSIVE Join(_)
Join(v) ==
    IF v = <<>> THEN <<>>
    ELSE IF Len(v) = 1 THEN <<v[1]>>
    ELSE <<v[1], ", ">> \o Join(Tail(v))

RECURSIVE HeaderLines(_)
HeaderLines(h) ==
    IF h = <<>> THEN <<>>
    ELSE << <<Head(h).k, ": ">> \o Join(Head(h).v) >> \o HeaderLines(Tail(h))

\* As LimitRead, without the limit: io.ReadAll(resp.Body).
ReadWholeBody(body) == body

\* io.ReadAll(io.LimitReader(resp.Body, 1024)).  The body is the bytes the
\* connection delivered: ReadAll's error is dropped, so a read that fails
\* midway leaves a shorter body.
LimitRead(body) == SubSeq(body, 1, IF Len(body) < ReadCap THEN Len(body) ELSE ReadCap)

\* strings.Contains(s, sub) on byte-level strings
ContainsBytes(s, sub) ==
    \E i \in 1..(Len(s) - Len(sub) + 1) : SubSeq(s, i, i + Len(sub) - 1) = sub

CaptiveClassify(r, body) ==
    IF ~ContainsBytes(body, Marker)
    THEN [r EXCEPT !.Status = StatusWarning,
                   !.Message = <<"Login Required (Captive Portal detected)">>,
                   !.Fix = <<"Open your browser to sign in to the network.">>]
    ELSE r

CheckCaptivePortal ==
    /\ pc = "idle"
    /\ \E v \in BOOLEAN, h \in HttpReplies :
         Return("CheckCaptivePortal", v, [NoEnv EXCEPT !.http = h],
                IF h.err
                THEN Result(<<"Captive Portal">>, 0, StatusError, <<"HTTP health check failed">>,
                            Empty, <<>>)
                ELSE CaptiveClassify(
                         Result(<<"Captive Portal">>, h.dur, StatusOk, Empty, Empty,
                                IF v THEN << <<"Response Status: ", h.status>> >> \o HeaderLines(h.header)
                                     ELSE <<>>),
                         LimitRead(h.body)),
                NoPing)
    /\ UNCHANGED <<hops, running, outOfOrder>>

(***************************************************************************)
(* FastTraceroute                                                          *)
(***************************************************************************)
\* Fragments that the character class [\d\.]+ matches whole.
NumericAddrs == {"1.1.1.1", "10.0.0.1"}

\* What one `ping -c 1 -t <ttl> -o 1.1.1.1` can give: exit status and stdout.
ProbeOutputs ==
    { [err |-> FALSE, out |-> <<"64 bytes ", "from ", "1.1.1.1", ":", " icmp_seq=0 ttl=58">>],
      [err |-> FALSE, out |-> <<"64 bytes ", "from ", "one.one.one.one", " (1.1.1.1):", " icmp_seq=0">>],
      [err |-> TRUE,  out |-> <<"36 bytes ", "from ", "10.0.0.1", ":", " Time to live exceeded">>] }

\* regexp `from ([\d\.]+):` FindStringSubmatch: <<>> when there is no match,
\* else <<whole match, capture 1>>.
FindFrom(out) ==
    LET hits == { i \in 1..(Len(out) - 2) :
                    /\ out[i] = "from "
                    /\ out[i + 1] \in NumericAddrs
                    /\ out[i + 2] = ":" }
    IN IF hits = {} THEN <<>>
       ELSE LET i == CHOOSE j \in hits : \A k \in hits : j <= k
            IN <<out[i] \o out[i + 1] \o out[i + 2], out[i + 1]>>

\* As ProbeWrite, but the line goes to the first free slot, as it would if
\* the goroutines appended to a shared list.
ProbeWriteAppend(h, ttl, p) ==
    LET free == CHOOSE i \in 1..NumTTL : h[i] = Empty /\ \A k \in 1..(i - 1) : h[k] # Empty
    IN IF ~p.err
       THEN LET m == FindFrom(p.out)
            IN IF Len(m) > 1
               THEN [h EXCEPT ![free] = <<"Hop ">> \o Pad2(ttl) \o <<": ", m[2]>>]
               ELSE h
       ELSE [h EXCEPT ![free] = <<"Hop ">> \o Pad2(ttl) \o <<": ", "* (Request timed out)">>]

\* The slot array after the goroutine for `ttl` ran on output `p`.
ProbeWrite(h, ttl, p) ==
    IF ~p.err
    THEN LET m == FindFrom(p.out)
         IN IF Len(m) > 1
            THEN [h EXCEPT ![ttl] = <<"Hop ">> \o Pad2(ttl) \o <<": ", m[2]>>]
            ELSE h
    ELSE [h EXCEPT ![ttl] = <<"Hop ">> \o Pad2(ttl) \o <<": ", "* (Request timed out)">>]

\* for _, h := range hops { if h != "" { append } }
RECURSIVE Collect(_, _)
Collect(h, i) ==
    IF i > NumTTL THEN <<>>
    ELSE (IF h[i] # Empty THEN <<h[i]>> ELSE <<>>) \o Collect(h, i + 1)

EmptyHops == [i \in 0..NumTTL |-> Empty]

\* FastTraceroute(verbose=false): the short-circuit return.
FastTracerouteQuiet ==
    /\ pc = "idle"
    /\ pc' = "done"
    /\ check' = "FastTraceroute"
    /\ verbose' = FALSE
    /\ res' = Result(<<"Fast Trace">>, 0, StatusOk,
                     <<"Use -v flag to view the network path">>, Empty, <<>>)
    /\ UNCHANGED <<env, pingRet, hops, running, outOfOrder>>

\* FastTraceroute(verbose=true) up to wg.Wait(): the slots are allocated and
\* one goroutine per TTL is started.
FastTracerouteStart ==
    /\ pc = "idle"
    /\ pc' = "trace"
    /\ check' = "FastTraceroute"
    /\ verbose' = TRUE
    /\ hops' = EmptyHops
    /\ running' = 1..NumTTL
    /\ res' = Result(<<"Fast Trace">>, 0, StatusOk, Empty, Empty, <<>>)
    /\ UNCHANGED <<env, pingRet, outOfOrder>>

\* The goroutine of one TTL: run ping, write its slot, wg.Done().
Probe(ttl) ==
    /\ pc = "trace"
    /\ ttl \in running
    /\ \E p \in ProbeOutputs : hops' = ProbeWrite(hops, ttl, p)
    /\ running' = running \ {ttl}
    /\ outOfOrder' = (outOfOrder \/ \E t \in running : t < ttl)
    /\ UNCHANGED <<pc, check, verbose, env, res, pingRet>>

\* As FastTracerouteJoin, without wg.Wait(): the slots are collected while
\* goroutines may still run.
FastTracerouteJoinEarly ==
    /\ pc = "trace"
    /\ pc' = "done"
    /\ res' = [res EXCEPT !.Details = Collect(hops, 0)]
    /\ UNCHANGED <<check, verbose, env, pingRet, hops, running, outOfOrder>>

\* wg.Wait() returns, the slots are collected in index order, return.
FastTracerouteJoin ==
    /\ pc = "trace"
    /\ running = {}
    /\ pc' = "done"
    /\ res' = [res EXCEPT !.Details = Collect(hops, 0)]
    /\ UNCHANGED <<check, verbose, env, pingRet, hops, running, outOfOrder>>

(***************************************************************************)
(* The engine: one check is called and returns.                            *)
(***************************************************************************)
Init ==
    /\ pc = "idle"
    /\ check = "none"
    /\ verbose = FALSE
    /\ env = NoEnv
    /\ res = NoResult
    /\ pingRet = NoPing
    /\ hops = EmptyHops
    /\ running = {}
    /\ outOfOrder = FALSE

NextTrace ==
    \/ FastTracerouteQuiet
    \/ FastTracerouteStart
    \/ \E ttl \in 1..NumTTL : Probe(ttl)
    \/ FastTracerouteJoin

NextChecks ==
    \/ CheckL2WiFi
    \/ CheckL3Gateway
    \/ CheckL3WAN
    \/ CheckDNSBenchmark
    \/ CheckPrivateRelay
    \/ CheckCaptivePortal

Next == NextChecks \/ NextTrace

\* Every check, the path tracer's goroutines included.
Spec == Init /\ [][Next]_vars

\* The path tracer alone.
SpecTrace == Init /\ [][NextTrace]_vars

\* The checks that run in one step.
SpecChecks == Init /\ [][NextChecks]_vars

(***************************************************************************)
(* The parsers as pure functions: the input is drawn at the start and the  *)
(* parser is applied to it.                                                *)
(***************************************************************************)
InitParse ==
    /\ pc = "idle"
    /\ res = NoResult
    /\ pingRet = NoPing
    /\ hops = EmptyHops
    /\ running = {}
    /\ outOfOrder = FALSE
    /\ \/ /\ check = "parsePing"
          /\ verbose = FALSE
          /\ \E p \in PingOutputs : env = [NoEnv EXCEPT !.ping = p]
       \/ /\ check = "parseWiFiInfo"
          /\ verbose \in BOOLEAN
          /\ \E ls \in WiFiOutputs : env = [NoEnv EXCEPT !.profiler = [err |-> FALSE, out |-> ls]]

CallParsePing ==
    /\ pc = "idle"
    /\ check = "parsePing"
    /\ pc' = "done"
    /\ pingRet' = parsePing(env.ping.out)
    /\ UNCHANGED <<check, verbose, env, res, hops, running, outOfOrder>>

CallParseWiFiInfo ==
    /\ pc = "idle"
    /\ check = "parseWiFiInfo"
    /\ pc' = "done"
    /\ res' = parseWiFiInfo(env.profiler.out, "en0", verbose)
    /\ UNCHANGED <<check, verbose, env, pingRet, hops, running, outOfOrder>>

NextParse == CallParsePing \/ CallParseWiFiInfo

SpecParse == InitParse /\ [][NextParse]_vars

(***************************************************************************)
(* Properties                                                              *)
(***************************************************************************)
Done(c) == pc = "done" /\ check = c

\* The TTL a hop line is about: the n with which the line starts "Hop <n>: ".
HasPrefix(s, pre) == Len(s) >= Len(pre) /\ SubSeq(s, 1, Len(pre)) = pre

HopOf(line) == CHOOSE t \in 1..NumTTL : HasPrefix(line, <<"Hop ">> \o Pad2(t) \o <<": ">>)

\* C1: FastTraceroute(verbose=true) emits its hop lines in strictly ascending
\* TTL order, whatever the order in which the ten probes finished: at every
\* moment the lines in the slots, read in slot order, ascend by TTL (each line
\* names a lower TTL than the next), and the
\* Details returned are those lines.
Ascending(ls) ==
    \A i \in 1..(Len(ls) - 1) : HopOf(ls[i]) < HopOf(ls[i + 1])

C1_HopsAscending ==
    (check = "FastTraceroute" /\ verbose) =>
        /\ Ascending(Collect(hops, 0))
        /\ pc = "done" => (res.Details = Collect(hops, 0) /\ Ascending(res.Details))

\* A trace returned all ten hops although some probe finished before one
\* with a lower TTL.
C1_Witness ==
    Done("FastTraceroute") /\ verbose /\ outOfOrder /\ Len(res.Details) = NumTTL

\* C2: FastTraceroute(verbose=true) returns exactly one line per TTL 1..10;
\* a TTL without a responding address has a line too.
C2_EveryTTLHasLine ==
    (Done("FastTraceroute") /\ verbose) =>
        /\ Len(res.Details) = NumTTL
        /\ \A t \in 1..NumTTL : HopOf(res.Details[t]) = t

\* C3: a Result has Details only if the check was called with verbose=true.
C3_DetailsOnlyVerbose ==
    pc = "done" => (res.Details # <<>> => verbose)

\* C4, original statement: both ping checks give Ok at exactly the warning ceiling
\* and Warning one microsecond above it.
C4_BothChecksWarnAboveCeiling ==
    ( /\ pc = "done"
      /\ check \in {"CheckL3Gateway", "CheckL3WAN"}
      /\ (check = "CheckL3WAN" \/ ~getGatewayIP(env.route).err)
      /\ ~pingRet.err ) =>
        /\ res.Latency = WanCeiling => res.Status = StatusOk
        /\ res.Latency = WanCeiling + Microsecond => res.Status = StatusWarning

\* C4 amended: after a successful ping CheckL3WAN returns Warning exactly when
\* the latency is strictly above 150 ms (Ok at exactly 150 ms, Warning one
\* microsecond above); CheckL3Gateway has no ceiling and returns Ok at every
\* latency.
C4_WanStrictCeiling ==
    /\ (Done("CheckL3WAN") /\ ~pingRet.err) =>
          /\ res.Latency = pingRet.lat
          /\ res.Status = (IF res.Latency > WanCeiling THEN StatusWarning ELSE StatusOk)
          /\ res.Latency = WanCeiling => res.Status = StatusOk
          /\ res.Latency = WanCeiling + Microsecond => res.Status = StatusWarning
    /\ (Done("CheckL3Gateway") /\ ~getGatewayIP(env.route).err /\ ~pingRet.err) =>
          /\ res.Latency = pingRet.lat
          /\ res.Status = StatusOk

\* The WAN ping measured exactly the ceiling and the check returned Ok.
C4_Witness ==
    Done("CheckL3WAN") /\ ~pingRet.err /\ res.Latency = WanCeiling /\ res.Status = StatusOk

\* The lines of a telemetry dump that lie after the first "Current Network
\* Information" line and before the next "Other Local Wi-Fi Networks" line.
OpenAt(lines) ==
    LET hits == { i \in 1..Len(lines) : Contains(lines[i], CurrentMarker) }
    IN IF hits = {} THEN 0 ELSE CHOOSE j \in hits : \A k \in hits : j <= k

CloseAt(lines) ==
    LET hits == { i \in (OpenAt(lines) + 1)..Len(lines) : Contains(lines[i], OtherMarker) }
    IN IF hits = {} THEN Len(lines) + 1 ELSE CHOOSE j \in hits : \A k \in hits : j <= k

Region(lines) ==
    IF OpenAt(lines) = 0 THEN {} ELSE (OpenAt(lines) + 1)..(CloseAt(lines) - 1)

\* The measured operation of the check that returned has failed: a tool or
\* the network failed, or a number that is present could not be parsed.
PingFailed(p) ==
    p.err \/ SummaryHits(p.out) = {} \/ ParseFloat(AvgCapture(p.out)).err

SignalUnparsed(lines) ==
    \E i \in Region(lines) : Contains(lines[i], SignalTag) /\ FindSignal(lines[i]) = <<>>

PrimaryFailed ==
    \/ /\ check = "CheckL2WiFi"
       /\ \/ getPrimaryInterface(env.route).err
          \/ env.profiler.err
          \/ SignalUnparsed(env.profiler.out)
    \/ /\ check = "CheckL3Gateway"
       /\ getGatewayIP(env.route).err \/ PingFailed(env.ping)
    \/ /\ check = "CheckL3WAN"
       /\ PingFailed(env.ping)
    \/ /\ check = "CheckDNSBenchmark"
       /\ env.dns.reply["System"].err
    \/ /\ check = "CheckCaptivePortal"
       /\ env.http.err

\* C5: no check returns Ok when its measured operation failed.
C5_NoFalseOk ==
    (pc = "done" /\ PrimaryFailed) => res.Status # StatusOk

\* The marker lies wholly within the first ReadCap bytes of the body.
MarkerWithinCap(body) ==
    \E i \in 1..Len(body) :
        /\ i + Len(Marker) - 1 <= ReadCap
        /\ i + Len(Marker) - 1 <= Len(body)
        /\ \A k \in 1..Len(Marker) : body[i + k - 1] = Marker[k]

MarkerAnywhere(body) ==
    \E i \in 1..Len(body) :
        /\ i + Len(Marker) - 1 <= Len(body)
        /\ \A k \in 1..Len(Marker) : body[i + k - 1] = Marker[k]

C7_WarningHasMessageAndFix ==
    (pc = "done" /\ res.Status = StatusWarning) => (res.Message # Empty /\ res.Fix # Empty)

\* C8: every Error has Latency zero.
C8_ErrorHasZeroLatency ==
    (pc = "done" /\ res.Status = StatusError) => res.Latency = 0

\* The gateway was found, its ping failed, and the Result built from ping's
\* return values is an Error.
C8_Witness ==
    /\ Done("CheckL3Gateway")
    /\ ~getGatewayIP(env.route).err
    /\ pingRet.err
    /\ res.Status = StatusError

\* C9: parsePing returns the average with its sub-millisecond digits when the
\* summary line is there and the average is a number (12.345 gives 12 ms +
\* 345 us), and an error with zero duration when the line is absent or the
\* average is not a well-formed number.
C9_ParsePingContract ==
    Done("parsePing") =>
        LET out == env.ping.out
        IN IF SummaryHits(out) # {} /\ ~ParseFloat(AvgCapture(out)).err
           THEN /\ ~pingRet.err
                /\ pingRet.lat = FloatToDuration(ParseFloat(AvgCapture(out)))
                /\ AvgCapture(out) = <<"1", "2", ".", "3", "4", "5">>
                     => pingRet.lat = 12 * Millisecond + 345 * Microsecond
           ELSE pingRet.err /\ pingRet.lat = 0

\* The first line of the region that ends with a colon and is no marker line.
SsidLines(lines) ==
    { i \in Region(lines) :
        HasSuffix(TrimSpace(lines[i]), ":") /\ ~Contains(lines[i], CurrentMarker) }

\* The lines of the region whose Signal / Noise value parses.
SignalLines(lines) ==
    { i \in Region(lines) : Contains(lines[i], SignalTag) /\ FindSignal(lines[i]) # <<>> }

\* C10: parseWiFiInfo takes the SSID, the signal and the detail lines only
\* from the lines of the region: the SSID is the first colon-terminated line
\* of the region and is in Name, the signal reported is that of a line of the
\* region (0 when it has none), every detail line is a line of the region,
\* and verbose Details are not empty when the region has a line with a colon.
C10_RegionOnly ==
    Done("parseWiFiInfo") =>
        LET lines == env.profiler.out
        IN /\ IF SsidLines(lines) = {}
              THEN res.Name = <<"Wi-Fi">>
              ELSE LET i == CHOOSE j \in SsidLines(lines) : \A k \in SsidLines(lines) : j <= k
                   IN res.Name = <<"Wi-Fi (">> \o TrimSuffix(TrimSpace(lines[i]), ":") \o <<")">>
           /\ IF SignalLines(lines) = {}
              THEN res.Message[4] = "0"
              ELSE \E i \in SignalLines(lines) : res.Message[4] = FindSignal(lines[i])[1]
           /\ \A d \in 1..Len(res.Details) :
                \E i \in Region(lines) : res.Details[d] = TrimSpace(lines[i])
           /\ (verbose /\ \E i \in Region(lines) :
                    Contains(lines[i], ":") /\ ~Contains(lines[i], CurrentMarker))
                => res.Details # <<>>

\* A step of a verbose trace changes slot i only as the goroutine of TTL i:
\* the trace is waiting, that goroutine was still running and finishes in
\* this step, no other goroutine finishes in it, and the slot was empty.
SlotWrittenByOwnerOnce ==
    \A i \in 0..NumTTL :
        hops'[i] # hops[i] =>
            /\ pc = "trace" /\ pc' = "trace"
            /\ i \in running
            /\ running' = running \ {i}
            /\ hops[i] = Empty

\* C11: FastTraceroute(verbose=true) assembles its Result only after all ten
\* probe goroutines have finished: when it has returned none is running and
\* Details are the lines of the slots as the goroutines left them; each slot
\* is written only by the goroutine of its own TTL and at most once; and the
\* slots do not change once the Result is returned.
C11_AssembledAfterAllProbes ==
    /\ []((Done("FastTraceroute") /\ verbose) =>
            (running = {} /\ res.Details = Collect(hops, 0)))
    /\ [][SlotWrittenByOwnerOnce]_vars
    /\ [][(pc = "trace" /\ pc' = "done") => (running = {} /\ hops' = hops)]_vars
    /\ [][pc = "done" => hops' = hops]_vars

\* A trace returned after its ten goroutines finished, some with a reply,
\* some timed out, some with nothing to write.
C11_Witness ==
    /\ Done("FastTraceroute") /\ verbose /\ running = {}
    /\ \E i \in 1..NumTTL : hops[i] = Empty
    /\ \E i \in 1..NumTTL : hops[i] # Empty /\ hops[i][Len(hops[i])] = "* (Request timed out)"
    /\ \E i \in 1..NumTTL : hops[i] # Empty /\ hops[i][Len(hops[i])] \in NumericAddrs
    /\ res.Details = Collect(hops, 0)

\* The resolver names of detail lines, in line order.
DetailNames(details) == [i \in 1..Len(details) |-> details[i][1]]

\* Exactly one detail line per resolver.
OneLinePerResolver ==
    /\ Len(res.Details) = Cardinality(Resolvers)
    /\ \A n \in Resolvers : \E i \in 1..Len(res.Details) : res.Details[i][1] = n

\* C12: CheckDNSBenchmark records exactly one detail line per resolver, and
\* the order of the three lines is the same for every order in which the
\* resolvers are visited: with the same replies, any other visiting order
\* gives the lines in the order of this invocation.
C12_FixedResolverOrder ==
    Done("CheckDNSBenchmark") =>
        /\ OneLinePerResolver
        /\ \A o \in MapOrders(Resolvers) :
             DetailNames(DnsLoop(o, env.dns.reply, 1,
                                 Result(<<"DNS Benchmark">>, 0, StatusOk, Empty, Empty, <<>>)).Details)
               = DetailNames(res.Details)
====
